---------------------------- MODULE Spec2Model ----------------------------
(***************************************************************************)
(* EduPath server (src/server.js): three JSON files used as collections    *)
(* (accounts.json, universities.json, applications.json) and the express   *)
(* handlers that load a whole collection, change it in memory and write    *)
(* it back.  One node process: a handler runs without interruption up to   *)
(* its next `await`.  Only /api/signup (await bcrypt.hash) and /api/login   *)
(* (await bcrypt.compare) have one; every other handler uses readFileSync  *)
(* and writeFileSync and therefore is one atomic step.                     *)
(***************************************************************************)
EXTENDS Integers, Sequences, FiniteSets, Bags, TLC

(* ------------------------------ bounds -------------------------------- *)
\* number of async handlers that can be suspended at an await at once
MaxPending == 2
\* last value of Date.now() that is explored (the clock starts at 1)
MaxClock == 2
\* signups accepted past the conflict check (finished or still hashing)
MaxSignups == 2
\* logins suspended at bcrypt.compare at once
MaxLogins == 1
\* records the applications / universities files may grow to
MaxApps == 2
MaxUnis == 2

(* ------------------------------ inputs -------------------------------- *)
\* A string that the code inspects character by character is a tuple of
\* characters; <<>> is the empty or absent (falsy) string.
Emails == { <<"a", "x">>, <<"A", "x">>, <<"b", "x">> }
EmailInputs == Emails \cup { <<>> }
\* strings the code only stores and compares; "" is the absent value
NameInputs == { "", "Ana" }
PasswordInputs == { "", "pw1", "pw2" }
\* a request body of POST /api/signup: complete, or with one field absent
SignupInputs ==
    { [ name |-> "Ana", email |-> e, password |-> "pw1" ] : e \in Emails } \cup
    { [ name |-> "", email |-> << "a", "x" >>, password |-> "pw1" ],
      [ name |-> "Ana", email |-> << >>, password |-> "pw1" ],
      [ name |-> "Ana", email |-> << "a", "x" >>, password |-> "" ] }
\* a request body of POST /api/login: complete (right or wrong password), or
\* with one field absent
LoginInputs ==
    { [ email |-> e, password |-> pw ] : e \in Emails, pw \in { "pw1", "pw2" } } \cup
    { [ email |-> << >>, password |-> "pw1" ],
      [ email |-> << "a", "x" >>, password |-> "" ] }

\* a request body of POST /api/apply: complete with any email, or with one
\* required field absent
RequiredFields == { "fullName", "birthDate", "nationalId", "address",
                    "phoneNumber", "college" }
AllPresent == [ fullName |-> "F", birthDate |-> "B", nationalId |-> "N",
                address |-> "A", phoneNumber |-> "P", total |-> "T",
                paymentMethod |-> "M", college |-> "C" ]
ApplyFields == { AllPresent } \cup
               { [ AllPresent EXCEPT ![f] = "" ] : f \in RequiredFields }
ApplyInputs ==
    { [ fields |-> AllPresent, email |-> e ] : e \in EmailInputs } \cup
    { [ fields |-> fs, email |-> << "a", "x" >> ] : fs \in ApplyFields }

\* a request body of POST or PUT /api/universities, with or without an id;
\* the names are Alpha U and Beta U
UniBodies == { [ name |-> << "A", "l", "p", "h", "a", " ", "U" >>, type |-> "Public",
                 colleges |-> << [ name |-> "Engineering" ] >> ],
               [ id |-> 1, name |-> << "B", "e", "t", "a", " ", "U" >>, type |-> "Private",
                 colleges |-> << >> ] }

\* the query string of GET /api/universities: q, type and college, each
\* absent (<< >> or "") or given
QueryInputs ==
    [ q : { << >>, << "A", "L" >>, << "b", "e" >> },
      type : { "", "Public", "public" },
      college : { "", "Engineering", "Arts" } ]

\* the :id segment of a path, as text
NaN == -1
IdNumbers == 0..(MaxClock + 1)
IdParams == { ToString(n) : n \in IdNumbers } \cup { "abc" }

(* --------------------------- pure functions --------------------------- *)
\* String.prototype.toLowerCase on the characters used here
LowerChar(c) ==
    CASE c = "A" -> "a"
      [] c = "B" -> "b"
      [] c = "X" -> "x"
      [] c = "L" -> "l"
      [] c = "U" -> "u"
      [] OTHER -> c

toLowerCase(s) == [ i \in DOMAIN s |-> LowerChar(s[i]) ]

\* Number(req.params.id): the number the text denotes, NaN otherwise
Number(s) ==
    IF \E n \in IdNumbers : ToString(n) = s
    THEN CHOOSE n \in IdNumbers : ToString(n) = s
    ELSE NaN

\* u.id === id / u.id !== id on numbers: NaN is equal to nothing
StrictEq(a, b) == a # NaN /\ b # NaN /\ a = b

\* bcrypt.hash(password, 10) and bcrypt.compare(password, hash)
bcryptHash(password) == << "$2a$10$", password >>
bcryptCompare(password, hash) == hash = bcryptHash(password)

\* (variant: only the first record with the id is taken out)
WithoutFirst(seq, id) ==
    LET matching == { k \in DOMAIN seq : StrictEq(seq[k].id, id) }
    IN  IF matching = { } THEN seq
        ELSE LET i == CHOOSE k \in matching : \A j \in matching : k <= j
             IN  SubSeq(seq, 1, i - 1) \o SubSeq(seq, i + 1, Len(seq))

\* Array.prototype.filter(r => r.id !== id): the records kept, in order
WithoutId(seq, id) == SelectSeq(seq, LAMBDA r : ~StrictEq(r.id, id))

\* String.prototype.includes: sub occurs in str at some offset
Includes(str, sub) ==
    \E k \in 0..(Len(str) - Len(sub)) : \A j \in 1..Len(sub) : str[k + j] = sub[j]

\* Array.prototype.find / findIndex: the first of the matching indices, 0 if none
FirstIndex(matching) ==
    IF matching = { } THEN 0
    ELSE CHOOSE i \in matching : \A j \in matching : i <= j

(* ------------------------------ the files ----------------------------- *)
\* What fs.readFileSync and JSON.parse can find at the path of a collection:
\*   "ok"       the text the server writes (accounts: {"users":[...]},
\*              universities: {"items":[...]}, applications: [...])
\*   "absent"   no file: readFileSync throws
\*   "blank"    a file of no characters: raw is ""
\*   "garbage"  text that is not JSON: JSON.parse throws
\*   "null"     the JSON text null
\*   "object"   the JSON text {}
FileForms == { "ok", "absent", "blank", "garbage", "null", "object" }

\* JSON.parse of the texts null and {}: values without a users or items field
JsNull == [ json |-> "null" ]
EmptyObject == [ json |-> "{}" ]

\* readDB, lines 18-25, on a file of the given form; array is the users
\* array of a file of the form "ok"
LoadDB(form, array) ==
    CASE form = "ok" -> [ users |-> array ]
      [] form = "blank" -> [ users |-> << >> ]
      [] form \in { "absent", "garbage" } -> [ users |-> << >> ]
      [] form = "null" -> JsNull
      [] form = "object" -> EmptyObject

\* readUniversities, lines 67-75: null.items throws inside the try
LoadUniversities(form, array) ==
    CASE form = "ok" -> array
      [] form = "blank" -> << >>
      [] form \in { "absent", "garbage", "null" } -> << >>
      [] form = "object" -> << >>

\* readApplications, lines 109-118
LoadApplications(form, array) ==
    CASE form = "ok" -> array
      [] form = "blank" -> << >>
      [] form \in { "absent", "garbage" } -> << >>
      [] form \in { "null", "object" } -> << >>

\* db.users is an array: db.users.some and db.users.find can be called
HasUsers(db) == "users" \in DOMAIN db

\* the TypeError of db.users.some / db.users.find on a db without users
TypeError == [ error |-> "TypeError" ]

\* What the client sees when an exception leaves a handler.  A handler that
\* is not async throws into express, whose default error handler answers
\* 500.  An async handler rejects its promise: express 5 answers 500,
\* express 4 sends no response at all (status 0 here).
ThrownStatuses == { 500 }
RejectedStatuses == { 0, 500 }

(* ------------------------------- state -------------------------------- *)
VARIABLES
    now,      \* Date.now(), in milliseconds
    users,    \* accounts.json: the users array
    unis,     \* universities.json: the items array
    apps,     \* applications.json: the array
    pending,  \* the async handlers suspended at an await, as a bag: each with
              \* the line it resumes at (40 in signup, 57 in login) and its
              \* local variables
    last,     \* the response sent last: handler, request, status, body and
              \* the source line of the statement that sent it
    signups,  \* history: the signups answered 201, as a bag of request and id
    disk      \* what each of the three files holds: "ok" when it has the form
              \* the server writes (the array is then in users, unis or
              \* apps), otherwise one of the other FileForms

vars == << now, users, unis, apps, pending, last, signups, disk >>

Response(op, req, status, body, line) ==
    [ op |-> op, req |-> req, status |-> status, body |-> body, line |-> line ]

\* the handlers suspended at the given line
Suspended(line) == { h \in BagToSet(pending) : h.line = line }

Suspend(h) == pending (+) SetToBag({ h })
Resume(h) == pending (-) SetToBag({ h })

(* --------------------------- accounts.json ---------------------------- *)
readDB == LoadDB(disk.accounts, users)

\* (variant: the duplicate check compares the emails as they are written)
EmailTakenExactly(db, email) ==
    \E i \in DOMAIN db.users : db.users[i].email = email

\* db.users.some(u => u.email.toLowerCase() === email.toLowerCase())
EmailTaken(db, email) ==
    \E i \in DOMAIN db.users : toLowerCase(db.users[i].email) = toLowerCase(email)

\* db.users.find(u => u.email.toLowerCase() === email.toLowerCase()), 0 if none
FindUserIgnoringCase(db, email) ==
    FirstIndex({ i \in DOMAIN db.users : toLowerCase(db.users[i].email) = toLowerCase(email) })

\* (variant: the applicant is looked up ignoring case, as login does)
FindUserLoosely(db, applicantEmail) ==
    FirstIndex({ i \in DOMAIN db.users :
                   toLowerCase(db.users[i].email) = toLowerCase(applicantEmail) })

\* db.users.find(u => u.email === applicantEmail), 0 if none
FindUserExact(db, applicantEmail) ==
    FirstIndex({ i \in DOMAIN db.users : db.users[i].email = applicantEmail })

\* (variant: the whole stored user is sent)
WholeUser(user) == user

\* { id: user.id, name: user.name, email: user.email }
Profile(user) == [ id |-> user.id, name |-> user.name, email |-> user.email ]

MissingFields == [ error |-> "Missing fields" ]
AlreadyRegistered == [ error |-> "Email already registered" ]
InvalidLogin == [ error |-> "Invalid email or password" ]

\* the number of handlers suspended at the given line
CountSuspended(line) ==
    BagCardinality([ h \in Suspended(line) |-> CopiesIn(h, pending) ])

(* ----------------------------- POST /api/signup ----------------------- *)
\* lines 31-40: up to the await of bcrypt.hash
Signup(req) ==
    LET name == req.name
        email == req.email
        password == req.password
        db == readDB
    IN  /\ IF name = "" \/ email = << >> \/ password = ""
           THEN /\ last' = Response("signup", req, 400, MissingFields, 33)
                /\ UNCHANGED pending
           ELSE IF ~HasUsers(db)
           THEN /\ \E status \in RejectedStatuses :
                      last' = Response("signup", req, status, TypeError, 36)
                /\ UNCHANGED pending
           ELSE IF EmailTaken(db, email)
           THEN /\ last' = Response("signup", req, 409, AlreadyRegistered, 37)
                /\ UNCHANGED pending
           ELSE /\ BagCardinality(pending) < MaxPending
                /\ BagCardinality(signups) + CountSuspended(40) < MaxSignups
                /\ pending' = Suspend([ line |-> 40, req |-> req, db |-> db ])
                /\ UNCHANGED last
        /\ UNCHANGED << now, users, unis, apps, signups, disk >>

\* line 41: the account of a signup request that resumes at time t
NewUser(req, t) ==
    [ id |-> ToString(t), name |-> req.name, email |-> req.email,
      passwordHash |-> bcryptHash(req.password) ]

\* (variant: the new user is pushed onto the file as it is at the save)
PushUserOntoFile(db, user) == [ db EXCEPT !.users = Append(users, user) ]

\* the db the resumed signup writes: its own copy with the new user pushed
PushUser(db, user) == [ db EXCEPT !.users = Append(db.users, user) ]

\* lines 40-45: after the await
SignupResume(h) ==
    /\ h \in Suspended(40)
    /\ LET req == h.req
           user == NewUser(req, now)
           db == PushUser(h.db, user)
       IN  /\ users' = db.users
           /\ disk' = [ disk EXCEPT !.accounts = "ok" ]
           /\ last' = Response("signup", req, 201, Profile(user), 45)
           /\ signups' = signups (+) SetToBag({ [ req |-> req, id |-> user.id ] })
    /\ pending' = Resume(h)
    /\ UNCHANGED << now, unis, apps >>

\* GET /api/accounts, lines 201-204
GetAccounts ==
    /\ last' = Response("listAccounts", << >>, 200, readDB, 203)
    /\ UNCHANGED << now, users, unis, apps, pending, signups, disk >>

(* ----------------------------- POST /api/login ------------------------ *)
\* (variant: an unknown email is answered 404)
NoSuchUser404 == [ status |-> 404, body |-> [ error |-> "Not found" ] ]

\* the response of line 55 (no account has the email) and of line 58 (wrong password)
NoSuchUser == [ status |-> 401, body |-> InvalidLogin ]
WrongPassword == [ status |-> 401, body |-> InvalidLogin ]

\* lines 49-57: up to the await of bcrypt.compare
Login(req) ==
    LET email == req.email
        password == req.password
        db == readDB
        i == FindUserIgnoringCase(db, email)
    IN  /\ IF email = << >> \/ password = ""
           THEN /\ last' = Response("login", req, 400, MissingFields, 51)
                /\ UNCHANGED pending
           ELSE IF ~HasUsers(db)
           THEN /\ \E status \in RejectedStatuses :
                      last' = Response("login", req, status, TypeError, 54)
                /\ UNCHANGED pending
           ELSE IF i = 0
           THEN /\ last' = Response("login", req, NoSuchUser.status, NoSuchUser.body, 55)
                /\ UNCHANGED pending
           ELSE /\ BagCardinality(pending) < MaxPending
                /\ CountSuspended(57) < MaxLogins
                /\ pending' = Suspend([ line |-> 57, req |-> req, user |-> db.users[i] ])
                /\ UNCHANGED last
        /\ UNCHANGED << now, users, unis, apps, signups, disk >>

\* lines 57-61: after the await
LoginResume(h) ==
    /\ h \in Suspended(57)
    /\ LET req == h.req
           user == h.user
           ok == bcryptCompare(req.password, user.passwordHash)
       IN  last' = IF ~ok
                   THEN Response("login", req, WrongPassword.status, WrongPassword.body, 58)
                   ELSE Response("login", req, 200, Profile(user), 61)
    /\ pending' = Resume(h)
    /\ UNCHANGED << now, users, unis, apps, signups, disk >>

\* GET /api/accounts: the whole db, hashes included
ListAccounts == readDB

(* --------------------------- universities.json ------------------------ *)
readUniversities == LoadUniversities(disk.universities, unis)

\* (variant: the id is set only when the body carries none)
SetIdIfAbsent(body, id) ==
    IF "id" \in DOMAIN body THEN body
    ELSE [ f \in (DOMAIN body) \cup { "id" } |-> IF f = "id" THEN id ELSE body[f] ]

\* obj.id = id on a request body
SetId(body, id) ==
    [ f \in (DOMAIN body) \cup { "id" } |-> IF f = "id" THEN id ELSE body[f] ]

\* the id that POST /api/universities gives the new record (line 225)
NewUniId == now

\* readUniversities().find(u => u.id === id), 0 if none
FindUni(data, id) == FirstIndex({ i \in DOMAIN data : StrictEq(data[i].id, id) })

NotFound == [ error |-> "Not found" ]
UniNotFound == [ error |-> "University not found" ]
Deleted == [ message |-> "Deleted successfully" ]

\* GET /api/universities/:id, lines 97-102: status and body
GetUniversityResult(data, idParam) ==
    LET id == Number(idParam)
        i == FindUni(data, id)
    IN  IF i = 0 THEN [ status |-> 404, body |-> NotFound, line |-> 100 ]
        ELSE [ status |-> 200, body |-> data[i], line |-> 101 ]

GetUniversity(idParam) ==
    /\ LET r == GetUniversityResult(readUniversities, idParam)
       IN  last' = Response("getUniversity", idParam, r.status, r.body, r.line)
    /\ UNCHANGED << now, users, unis, apps, pending, signups, disk >>

\* (variant: the name filter compares the characters as they are)
NameMatchesExactCase(u, q) == Includes(u.name, q)

\* u.name.toLowerCase().includes(String(q).toLowerCase())
NameMatches(u, q) == Includes(toLowerCase(u.name), toLowerCase(q))

\* (u.colleges || []).some(c => c.name === college)
HasCollege(u, college) ==
    /\ "colleges" \in DOMAIN u
    /\ \E k \in DOMAIN u.colleges : u.colleges[k].name = college

\* lines 80-91: the three filters, each applied when its parameter is given
Filtered(data, query) ==
    LET byName == IF query.q # << >>
                  THEN SelectSeq(data, LAMBDA u : NameMatches(u, query.q))
                  ELSE data
        byType == IF query.type # ""
                  THEN SelectSeq(byName, LAMBDA u : u.type = query.type)
                  ELSE byName
    IN  IF query.college # ""
        THEN SelectSeq(byType, LAMBDA u : HasCollege(u, query.college))
        ELSE byType

\* GET /api/universities, lines 78-94
QueryUniversities(query) ==
    /\ LET data == Filtered(readUniversities, query)
       IN  last' = Response("queryUniversities", query, 200,
                            [ items |-> data, total |-> Len(data) ], 93)
    /\ UNCHANGED << now, users, unis, apps, pending, signups, disk >>

\* POST /api/universities, lines 223-230
CreateUniversity(body) ==
    LET newUni == SetId(body, NewUniId)
        data == readUniversities
    IN  /\ Len(data) < MaxUnis
        /\ unis' = Append(data, newUni)
        /\ disk' = [ disk EXCEPT !.universities = "ok" ]
        /\ last' = Response("createUniversity", body, 201, newUni, 229)
        /\ UNCHANGED << now, users, apps, pending, signups >>

\* PUT /api/universities/:id, lines 207-220
ReplaceUniversity(idParam, body) ==
    LET id == Number(idParam)
        data == readUniversities
        index == FindUni(data, id)
        updatedUni == SetId(body, id)
        req == [ id |-> idParam, body |-> body ]
    IN  /\ IF index = 0
           THEN /\ last' = Response("replaceUniversity", req, 404, UniNotFound, 213)
                /\ UNCHANGED << unis, disk >>
           ELSE /\ unis' = [ data EXCEPT ![index] = updatedUni ]
                /\ disk' = [ disk EXCEPT !.universities = "ok" ]
                /\ last' = Response("replaceUniversity", req, 200, updatedUni, 219)
        /\ UNCHANGED << now, users, apps, pending, signups >>

\* (variant: the filtered universities are written to applications.json)
DeleteUniversityIntoApplications(idParam) ==
    LET id == Number(idParam)
        data == readUniversities
        filtered == WithoutId(data, id)
    IN  /\ IF Len(data) = Len(filtered)
           THEN /\ last' = Response("deleteUniversity", idParam, 404, NotFound, 237)
                /\ UNCHANGED << apps, disk >>
           ELSE /\ apps' = filtered
                /\ disk' = [ disk EXCEPT !.applications = "ok" ]
                /\ last' = Response("deleteUniversity", idParam, 200, Deleted, 239)
        /\ UNCHANGED << now, users, unis, pending, signups >>

\* DELETE /api/universities/:id, lines 233-240
DeleteUniversity(idParam) ==
    LET id == Number(idParam)
        data == readUniversities
        filtered == WithoutId(data, id)
    IN  /\ IF Len(data) = Len(filtered)
           THEN /\ last' = Response("deleteUniversity", idParam, 404, NotFound, 237)
                /\ UNCHANGED << unis, disk >>
           ELSE /\ unis' = filtered
                /\ disk' = [ disk EXCEPT !.universities = "ok" ]
                /\ last' = Response("deleteUniversity", idParam, 200, Deleted, 239)
        /\ UNCHANGED << now, users, apps, pending, signups >>

(* --------------------------- applications.json ------------------------ *)
readApplications == LoadApplications(disk.applications, apps)

\* new Date().toISOString()
toISOString(ms) == << "ISO", ms >>

\* the id that POST /api/apply gives the new record (line 148)
NewApplicationId == now

MissingRequired == [ error |-> "Missing required fields" ]
UserNotFound == [ error |-> "Unauthorized: User not found" ]

\* (variant: a new application starts as Submitted)
NewApplicationSubmitted(fields, applicantEmail, user) ==
    [ id |-> NewApplicationId, userId |-> user.id,
      fullName |-> fields.fullName, birthDate |-> fields.birthDate,
      nationalId |-> fields.nationalId, address |-> fields.address,
      phoneNumber |-> fields.phoneNumber, total |-> fields.total,
      paymentMethod |-> fields.paymentMethod, applicantEmail |-> applicantEmail,
      college |-> fields.college, status |-> "Submitted",
      submittedAt |-> toISOString(now) ]

\* (variant: the applicant's email is stored in lower case)
NewApplicationLowered(fields, applicantEmail, user) ==
    [ id |-> NewApplicationId, userId |-> user.id,
      fullName |-> fields.fullName, birthDate |-> fields.birthDate,
      nationalId |-> fields.nationalId, address |-> fields.address,
      phoneNumber |-> fields.phoneNumber, total |-> fields.total,
      paymentMethod |-> fields.paymentMethod,
      applicantEmail |-> toLowerCase(applicantEmail),
      college |-> fields.college, status |-> "Pending",
      submittedAt |-> toISOString(now) ]

\* lines 147-161
NewApplication(fields, applicantEmail, user) ==
    [ id |-> NewApplicationId, userId |-> user.id,
      fullName |-> fields.fullName, birthDate |-> fields.birthDate,
      nationalId |-> fields.nationalId, address |-> fields.address,
      phoneNumber |-> fields.phoneNumber, total |-> fields.total,
      paymentMethod |-> fields.paymentMethod, applicantEmail |-> applicantEmail,
      college |-> fields.college, status |-> "Pending",
      submittedAt |-> toISOString(now) ]

\* POST /api/apply, lines 131-170
Apply(input) ==
    LET fields == input.fields
        applicantEmail == input.email
        db == readDB
        i == FindUserExact(db, applicantEmail)
    IN  /\ IF \E f \in RequiredFields : fields[f] = ""
           THEN /\ last' = Response("apply", input, 400, MissingRequired, 136)
                /\ UNCHANGED << apps, disk >>
           ELSE IF ~HasUsers(db)
           THEN /\ \E status \in ThrownStatuses :
                      last' = Response("apply", input, status, TypeError, 141)
                /\ UNCHANGED << apps, disk >>
           ELSE IF i = 0
           THEN /\ last' = Response("apply", input, 403, UserNotFound, 143)
                /\ UNCHANGED << apps, disk >>
           ELSE LET newApplication == NewApplication(fields, applicantEmail, db.users[i])
                    appsRead == readApplications
                IN  /\ Len(appsRead) < MaxApps
                    /\ apps' = Append(appsRead, newApplication)
                    /\ disk' = [ disk EXCEPT !.applications = "ok" ]
                    /\ last' = Response("apply", input, 201,
                                        [ message |-> "Application submitted successfully",
                                          applicationId |-> newApplication.id ], 169)
        /\ UNCHANGED << now, users, unis, pending, signups >>

EmailRequired == [ error |-> "Email is required" ]

\* GET /api/applications/count, lines 173-180
CountApplications(email) ==
    /\ IF email = << >>
       THEN last' = Response("countApplications", email, 400, EmailRequired, 175)
       ELSE LET appsRead == readApplications
                count == Len(SelectSeq(appsRead, LAMBDA a : a.applicantEmail = email))
            IN  last' = Response("countApplications", email, 200, [ count |-> count ], 179)
    /\ UNCHANGED << now, users, unis, apps, pending, signups, disk >>

\* what GET /api/applications sends
ListApplications == readApplications

\* GET /api/applications, lines 184-187
GetApplications ==
    /\ last' = Response("listApplications", << >>, 200, readApplications, 186)
    /\ UNCHANGED << now, users, unis, apps, pending, signups, disk >>

\* DELETE /api/applications/:id, lines 190-197
DeleteApplication(idParam) ==
    LET id == Number(idParam)
        appsRead == readApplications
        filtered == WithoutId(appsRead, id)
    IN  /\ IF Len(appsRead) = Len(filtered)
           THEN /\ last' = Response("deleteApplication", idParam, 404, NotFound, 194)
                /\ UNCHANGED << apps, disk >>
           ELSE /\ apps' = filtered
                /\ disk' = [ disk EXCEPT !.applications = "ok" ]
                /\ last' = Response("deleteApplication", idParam, 200, Deleted, 196)
        /\ UNCHANGED << now, users, unis, pending, signups >>

(* ------------------------------ the clock ----------------------------- *)
\* a millisecond passes
Tick ==
    /\ now < MaxClock
    /\ now' = now + 1
    /\ UNCHANGED << users, unis, apps, pending, last, signups, disk >>

(* --------------------------- specification ---------------------------- *)
\* the server has started: no accounts.json, no universities.json,
\* applications.json written as [] (lines 126-128)
Init ==
    /\ now = 1
    /\ users = << >>
    /\ unis = << >>
    /\ apps = << >>
    /\ pending = EmptyBag
    /\ last = Response("none", << >>, 0, [ error |-> "" ], 0)
    /\ signups = EmptyBag
    /\ disk = [ accounts |-> "absent", universities |-> "absent",
                applications |-> "ok" ]

SignupStep ==
    \/ \E req \in SignupInputs : Signup(req)
    \/ \E h \in BagToSet(pending) : SignupResume(h)

LoginStep ==
    \/ \E req \in LoginInputs : Login(req)
    \/ \E h \in BagToSet(pending) : LoginResume(h)

LedgerStep ==
    \/ \E input \in ApplyInputs : Apply(input)
    \/ \E idParam \in IdParams : DeleteApplication(idParam)

CatalogStep ==
    \/ \E idParam \in IdParams : GetUniversity(idParam)
    \/ \E body \in UniBodies : CreateUniversity(body)
    \/ \E idParam \in IdParams, body \in UniBodies : ReplaceUniversity(idParam, body)
    \/ \E idParam \in IdParams : DeleteUniversity(idParam)

\* accounts.json as found at startup: absent, or left by one or by two
\* signups handled at time 0
AccountFiles ==
    { << >>,
      << NewUser([ name |-> "Ana", email |-> << "a", "x" >>, password |-> "pw1" ], 0) >>,
      << NewUser([ name |-> "Ana", email |-> << "A", "x" >>, password |-> "pw1" ], 0),
         NewUser([ name |-> "Ana", email |-> << "b", "x" >>, password |-> "pw1" ], 0) >> }

InitLedger ==
    /\ now = 1
    /\ users \in AccountFiles
    /\ unis = << >>
    /\ apps = << >>
    /\ pending = EmptyBag
    /\ last = Response("none", << >>, 0, [ error |-> "" ], 0)
    /\ signups = EmptyBag
    /\ disk = [ accounts |-> IF users = << >> THEN "absent" ELSE "ok",
                universities |-> "absent", applications |-> "ok" ]

Next == Tick \/ SignupStep \/ LoginStep \/ LedgerStep \/ CatalogStep

\* The handlers of one collection neither read nor write the file of another,
\* except that /api/apply reads accounts.json.  Each collection is explored
\* under the requests that can change what its handlers read; the ledger is
\* also explored on its own, over an accounts.json that signups handled
\* before the server started have left (the server starts on the files it
\* finds).
NextSignup == Tick \/ SignupStep
NextAccounts == Tick \/ SignupStep \/ LoginStep
NextCatalog == Tick \/ CatalogStep
NextLedger == Tick \/ LedgerStep
NextRecords ==
    \/ Tick
    \/ SignupStep
    \/ \E input \in ApplyInputs : Apply(input)
    \/ \E body \in UniBodies : CreateUniversity(body)

Spec == Init /\ [][Next]_vars
SpecAccounts == Init /\ [][NextAccounts]_vars
SpecCatalog == Init /\ [][NextCatalog]_vars
SpecSignup == Init /\ [][NextSignup]_vars
SpecLedger == InitLedger /\ [][NextLedger]_vars
SpecRecords == Init /\ [][NextRecords]_vars

\* The requests of one client at a time, over files that an earlier run has
\* left: a client that signs up, one that logs in or lists the accounts, one
\* that works on the applications, one that works on the universities.  The
\* client being served is told from the handlers still suspended and from
\* the last response.
ClientOf(op) ==
    CASE op = "signup" -> "signup"
      [] op \in { "login", "listAccounts" } -> "login"
      [] op \in { "apply", "deleteApplication", "countApplications",
                  "listApplications" } -> "ledger"
      [] op \in { "getUniversity", "queryUniversities", "createUniversity",
                  "replaceUniversity", "deleteUniversity" } -> "catalog"
      [] OTHER -> "nobody"

Serving ==
    IF CountSuspended(40) > 0 THEN "signup"
    ELSE IF CountSuspended(57) > 0 THEN "login"
    ELSE ClientOf(last.op)

LedgerReadStep ==
    \/ \E email \in EmailInputs : CountApplications(email)
    \/ GetApplications

NextOneClient ==
    \/ Tick
    \/ Serving \in { "nobody", "signup" } /\ SignupStep
    \/ Serving \in { "nobody", "login" } /\ (LoginStep \/ GetAccounts)
    \/ Serving \in { "nobody", "ledger" } /\ (LedgerStep \/ LedgerReadStep)
    \/ Serving \in { "nobody", "catalog" } /\
          (CatalogStep \/ \E query \in QueryInputs : QueryUniversities(query))

\* universities.json and applications.json as an earlier run has left them:
\* one university created at time 0, and one application submitted at time
\* 0 by the first account, if there is an account
UniFile ==
    << SetId([ name |-> << "A", "l", "p", "h", "a", " ", "U" >>, type |-> "Public",
               colleges |-> << [ name |-> "Engineering" ] >> ], 0) >>

ApplicationFile(accounts) ==
    IF accounts = << >> THEN << >>
    ELSE << [ NewApplication(AllPresent, accounts[1].email, accounts[1])
                EXCEPT !.id = 0, !.submittedAt = toISOString(0) ] >>

InitFiles ==
    /\ now = 1
    /\ users \in AccountFiles
    /\ unis = UniFile
    /\ apps = ApplicationFile(users)
    /\ pending = EmptyBag
    /\ last = Response("none", << >>, 0, [ error |-> "" ], 0)
    /\ signups = EmptyBag
    /\ disk = [ accounts |-> IF users = << >> THEN "absent" ELSE "ok",
                universities |-> "ok", applications |-> "ok" ]

SpecOneClient == InitFiles /\ [][NextOneClient]_vars

\* The server started on files of which at most one has not the form the
\* server writes.  applications.json is never absent then: the startup code
\* (lines 126-128) writes [] when it is.
StartForms ==
    { d \in [ accounts : FileForms, universities : FileForms,
              applications : FileForms \ { "absent" } ] :
        Cardinality({ f \in DOMAIN d : d[f] # "ok" }) <= 1 }

InitAnyFiles ==
    /\ now = 1
    /\ disk \in StartForms
    /\ users = IF disk.accounts = "ok"
               THEN << NewUser([ name |-> "Ana", email |-> << "a", "x" >>,
                                 password |-> "pw1" ], 0) >>
               ELSE << >>
    /\ unis = IF disk.universities = "ok" THEN UniFile ELSE << >>
    /\ apps = IF disk.applications = "ok" THEN ApplicationFile(users) ELSE << >>
    /\ pending = EmptyBag
    /\ last = Response("none", << >>, 0, [ error |-> "" ], 0)
    /\ signups = EmptyBag

SpecAnyFiles == InitAnyFiles /\ [][NextOneClient]_vars

\* signups, submits and deletes of applications in any order
NextIntegrity == Tick \/ SignupStep \/ LedgerStep
SpecIntegrity == Init /\ [][NextIntegrity]_vars

(* ============================== properties ============================ *)
SameIgnoringCase(e1, e2) == toLowerCase(e1) = toLowerCase(e2)

(* C1: in every reachable state no two stored accounts have emails that    *)
(* are equal ignoring letter case, overlapping signups included.           *)
C1_UniqueEmails ==
    \A i, j \in DOMAIN users :
        i # j => ~SameIgnoringCase(users[i].email, users[j].email)

(* C2: when the signups answered 201 have pairwise distinct emails, the    *)
(* accounts listing holds exactly one account per signup: as many accounts *)
(* as signups, and for each signup exactly one account with the id, name   *)
(* and email it was answered with.                                         *)
DistinctSignupEmails ==
    \A s, t \in BagToSet(signups) :
        /\ CopiesIn(s, signups) = 1
        /\ s # t => ~SameIgnoringCase(s.req.email, t.req.email)

AccountsOf(listing, signup) ==
    { i \in DOMAIN listing.users :
        /\ listing.users[i].id = signup.id
        /\ listing.users[i].name = signup.req.name
        /\ listing.users[i].email = signup.req.email }

C2_OneAccountPerSignup ==
    DistinctSignupEmails =>
        /\ Len(ListAccounts.users) = BagCardinality(signups)
        /\ \A s \in BagToSet(signups) :
               Cardinality(AccountsOf(ListAccounts, s)) = 1

(* C3 (as claimed): two concurrent mutating requests on the same           *)
(* collection can interleave so that the later save drops the other        *)
(* request's change although both were answered with success, for each of  *)
(* the three collections: wherever two more signups (submits, creates) can *)
(* be accepted, some sequence of handler steps of two such requests ends   *)
(* with both answered and one change missing.                              *)
(* C3 (amended): that holds of signups only.  A save of the applications   *)
(* or of the universities handlers that follows a successful submit or     *)
(* create never drops the record just written (unless it is the delete or  *)
(* the replace of that very id).                                           *)
Complete(req) == req.name # "" /\ req.email # << >> /\ req.password # ""

RoomForTwoSignups ==
    /\ CountSuspended(40) = 0
    /\ BagCardinality(signups) + 2 <= MaxSignups
    /\ BagCardinality(pending) + 2 <= MaxPending
    /\ \E req \in SignupInputs : Complete(req) /\ ~EmailTaken(readDB, req.email)

RoomForTwoSubmits == Len(apps) + 2 <= MaxApps /\ users # << >>

RoomForTwoCreates == Len(unis) + 2 <= MaxUnis

\* a signup gets past its checks and is suspended
SignupBegins == \E req \in SignupInputs : Signup(req) /\ pending' # pending

\* a suspended signup saves and answers 201
SignupSaves == \E h \in Suspended(40) : SignupResume(h)

\* right after a signup was answered 201, another saves and answers 201,
\* and the file holds no more accounts than before this save
SecondSignupOverwrites ==
    /\ last.op = "signup" /\ last.status = 201
    /\ \E h \in Suspended(40) : SignupResume(h)
    /\ last'.status = 201
    /\ Len(users') = Len(users)

CanLoseSignup ==
    ENABLED ( SignupBegins /\
      ( ENABLED ( SignupBegins /\
          ( ENABLED ( SignupSaves /\ ( ENABLED SecondSignupOverwrites )' ) )' ) )' )

Records(seq) == { seq[i] : i \in DOMAIN seq }

\* a submit is answered 201
SubmitSaves == \E input \in ApplyInputs : Apply(input) /\ last'.status = 201

\* right after a submit was answered 201, a submit or a delete of another id
\* succeeds and the record just submitted is not in the file
LaterLedgerSaveDrops ==
    /\ last.op = "apply" /\ last.status = 201
    /\ \/ /\ \E input \in ApplyInputs : Apply(input)
          /\ last'.status = 201
          /\ Len(apps') <= Len(apps)
       \/ /\ \E idParam \in IdParams :
                DeleteApplication(idParam) /\ Number(idParam) # last.body.applicationId
          /\ last'.status = 200
          /\ apps[Len(apps)] \notin Records(apps')

CanLoseSubmit == ENABLED ( SubmitSaves /\ ( ENABLED LaterLedgerSaveDrops )' )

\* a create is answered 201
CreateSaves == \E body \in UniBodies : CreateUniversity(body)

\* right after a create, a create, or a replace or delete of another id,
\* succeeds and the record just created is not in the file
LaterCatalogSaveDrops ==
    /\ last.op = "createUniversity"
    /\ \/ /\ \E body \in UniBodies : CreateUniversity(body)
          /\ Len(unis') <= Len(unis)
       \/ /\ \/ \E idParam \in IdParams, body \in UniBodies :
                   ReplaceUniversity(idParam, body) /\ Number(idParam) # last.body.id
             \/ \E idParam \in IdParams :
                   DeleteUniversity(idParam) /\ Number(idParam) # last.body.id
          /\ last'.status = 200
          /\ last.body \notin Records(unis')

CanLoseCreate == ENABLED ( CreateSaves /\ ( ENABLED LaterCatalogSaveDrops )' )

UniqueIds(seq) == \A i, j \in DOMAIN seq : i # j => seq[i].id # seq[j].id

C4_UniqueRecordIds == UniqueIds(unis) /\ UniqueIds(apps)

(* C5: a signup that supplies all three fields and whose email equals,     *)
(* ignoring case, the email of an account that is in accounts.json when    *)
(* the request is handled is answered 409 Conflict and leaves              *)
(* accounts.json as it was.                                                *)
StoredIgnoringCase(email) ==
    \E i \in DOMAIN users : SameIgnoringCase(users[i].email, email)

C5_DuplicateSignupConflicts ==
    [][ \A req \in SignupInputs :
            ( /\ Signup(req)
              /\ req.name # "" /\ req.email # << >> /\ req.password # ""
              /\ StoredIgnoringCase(req.email) )
            => /\ last'.op = "signup" /\ last'.req = req
               /\ last'.status = 409 /\ last'.body = AlreadyRegistered
               /\ users' = users /\ pending' = pending
      ]_vars

C5_Witness ==
    /\ last.op = "signup" /\ last.status = 409
    /\ \E i \in DOMAIN users :
          /\ users[i].email # last.req.email
          /\ SameIgnoringCase(users[i].email, last.req.email)

C1_Witness ==
    /\ Len(users) >= 1
    /\ \E s, t \in BagToSet(signups) :
          /\ s # t \/ CopiesIn(s, signups) > 1
          /\ SameIgnoringCase(s.req.email, t.req.email)

(* C6: a login answered because no account has the email (line 55) and a   *)
(* login answered because the password is wrong for an existing account    *)
(* (line 58) get the same response: whenever one of the two follows the    *)
(* other, both have status 401 and the two bodies are equal.               *)
FailedLogin(r) == r.op = "login" /\ r.line \in { 55, 58 }

C6_SameUnauthorized ==
    [][ ( FailedLogin(last) /\ FailedLogin(last') /\ last.line # last'.line )
        => /\ last.status = 401 /\ last'.status = 401
           /\ last'.body = last.body
      ]_vars

\* an unknown email has just been answered and a wrong password for an
\* existing account is about to be
C6_Witness ==
    /\ last.op = "login" /\ last.line = 55
    /\ \E h \in Suspended(57) : ~bcryptCompare(h.req.password, h.user.passwordHash)

(* C7: no response of signup or login carries the password hash: a         *)
(* successful one has exactly the fields id, name and email, holding an id *)
(* the clock gave, the name and the email; a failed one is one of the      *)
(* three fixed error bodies.                                               *)
C7_NoHashInResponse ==
    last.op \in { "signup", "login" } =>
        IF last.status \in { 200, 201 }
        THEN /\ DOMAIN last.body = { "id", "name", "email" }
             /\ last.body.id \in { ToString(n) : n \in 1..now }
             /\ last.body.name \in NameInputs
             /\ last.body.email \in Emails
        ELSE last.body \in { MissingFields, AlreadyRegistered, InvalidLogin }

C7_Witness ==
    /\ last.op = "login" /\ last.status = 200
    /\ \E i \in DOMAIN users : users[i].id = last.body.id

(* C8: a login that is received after a signup was answered 201, with an *)
(* email equal ignoring case to the signup's and with the signup's         *)
(* password, gets past both checks of its first part holding the account   *)
(* of that signup (its id, and the name and email as given at signup), and *)
(* a login that resumes with a matching password is answered 200 with the  *)
(* id, name and email of the account it holds.                             *)
SignupProfile(signup) ==
    [ id |-> signup.id, name |-> signup.req.name, email |-> signup.req.email ]

C8_LoginAfterSignup ==
    [][ /\ \A req \in LoginInputs, s \in BagToSet(signups) :
               ( /\ Login(req)
                 /\ SameIgnoringCase(s.req.email, req.email)
                 /\ s.req.password = req.password )
               => \E h \in Suspended(57)' :
                      /\ pending' = Suspend(h)
                      /\ h.req = req
                      /\ Profile(h.user) = SignupProfile(s)
                      /\ bcryptCompare(req.password, h.user.passwordHash)
        /\ \A h \in Suspended(57) :
               ( LoginResume(h) /\ bcryptCompare(h.req.password, h.user.passwordHash) )
               => last' = Response("login", h.req, 200, Profile(h.user), 61)
      ]_vars

(* C9: a submit with every required field whose applicantEmail is not      *)
(* exactly the email of a stored account is answered 403 Forbidden and     *)
(* leaves applications.json as it was, also when the email differs from a  *)
(* stored one only in letter case.                                         *)
AllRequired(fields) == \A f \in RequiredFields : fields[f] # ""

StoredExactly(email) == \E i \in DOMAIN users : users[i].email = email

C9_UnknownApplicantForbidden ==
    [][ \A input \in ApplyInputs :
            ( /\ Apply(input)
              /\ AllRequired(input.fields)
              /\ ~StoredExactly(input.email) )
            => /\ last'.op = "apply" /\ last'.req = input
               /\ last'.status = 403 /\ last'.body = UserNotFound
               /\ apps' = apps
      ]_vars

C9_Witness ==
    /\ last.op = "apply" /\ last.status = 403
    /\ AllRequired(last.req.fields)
    /\ ~StoredExactly(last.req.email)
    /\ StoredIgnoringCase(last.req.email)

(* C10: POST /api/universities gives the record an id of its own, not the  *)
(* body's, and GET /api/universities/:id with that id, issued right after, *)
(* is answered 200 with exactly the record the create returned.            *)
C10_CreateThenGet ==
    [][ \A body \in UniBodies :
            CreateUniversity(body)
            => /\ last'.status = 201
               /\ last'.body = SetId(body, now)
               /\ LET r == GetUniversityResult(unis', ToString(last'.body.id))
                  IN  r.status = 200 /\ r.body = last'.body
      ]_vars

(* C11: PUT /api/universities/:id on a file that holds a record with the   *)
(* path id is answered 200 and stores, in place of such a record, the body  *)
(* with its id set to the path id whatever id the body carried; every      *)
(* other position of the file and its length stay as they were.  When no   *)
(* record has the path id it is answered 404 and the file stays as it was. *)
HoldsId(seq, id) == \E i \in DOMAIN seq : seq[i].id = id

IsBodyUnderId(record, body, id) ==
    /\ DOMAIN record = (DOMAIN body) \cup { "id" }
    /\ record.id = id
    /\ \A f \in (DOMAIN body) \ { "id" } : record[f] = body[f]

C11_ReplaceKeepsPathId ==
    [][ \A idParam \in IdParams, body \in UniBodies :
            ReplaceUniversity(idParam, body)
            => LET id == Number(idParam)
               IN  IF id # NaN /\ HoldsId(unis, id)
                   THEN /\ last'.status = 200
                        /\ IsBodyUnderId(last'.body, body, id)
                        /\ Len(unis') = Len(unis)
                        /\ \E k \in DOMAIN unis :
                              /\ unis[k].id = id
                              /\ IsBodyUnderId(unis'[k], body, id)
                              /\ \A j \in DOMAIN unis : j # k => unis'[j] = unis[j]
                   ELSE /\ last'.status = 404 /\ last'.body = UniNotFound
                        /\ unis' = unis
      ]_vars

\* a body carrying id 1 has just been stored under another path id, next to
\* another record
C11_Witness ==
    /\ last.op = "replaceUniversity" /\ last.status = 200
    /\ "id" \in DOMAIN last.req.body
    /\ last.req.body.id # Number(last.req.id)
    /\ Len(unis) = 2
    /\ \E k \in DOMAIN unis : unis[k].id # Number(last.req.id)

(* C12: right after a submit answered 201, the applications listing holds  *)
(* a record with the id the submit returned, every applicant-supplied      *)
(* field as submitted, the applicantEmail as submitted, and as userId the  *)
(* id of the account whose email is exactly the applicantEmail; right      *)
(* after a signup answered 201, the accounts listing holds an account with *)
(* the id, name and email the signup returned, which are the name and the  *)
(* email of the request.                                                   *)
SubmittedRecords(listing, input, response) ==
    { i \in DOMAIN listing :
        /\ listing[i].id = response.body.applicationId
        /\ \A f \in DOMAIN input.fields : listing[i][f] = input.fields[f]
        /\ listing[i].applicantEmail = input.email }

OwnersOf(email) == { users[u].id : u \in { k \in DOMAIN users : users[k].email = email } }

C12_RoundTrip ==
    [][ /\ \A input \in ApplyInputs :
               ( last'.op = "apply" /\ last'.status = 201 /\ Apply(input) )
               => \E i \in SubmittedRecords(ListApplications', input, last') :
                      OwnersOf(input.email) = { ListApplications'[i].userId }
        /\ \A h \in Suspended(40) :
               SignupResume(h)
               => /\ last'.status = 201
                  /\ last'.body.name = h.req.name /\ last'.body.email = h.req.email
                  /\ \E i \in DOMAIN ListAccounts'.users :
                         Profile(ListAccounts'.users[i]) = last'.body
      ]_vars

\* a submit with an email that has a capital letter has been answered 201,
\* next to an older application
C12_Witness ==
    /\ last.op = "apply" /\ last.status = 201
    /\ last.req.email # toLowerCase(last.req.email)
    /\ Len(apps) >= 2

(* C13: in every reachable state every application in the ledger has the   *)
(* status Pending, whatever submits and deletes came before.               *)
C13_AlwaysPending ==
    \A i \in DOMAIN ListApplications : ListApplications[i].status = "Pending"

\* a delete has removed one application and another is still stored
C13_Witness ==
    /\ last.op = "deleteApplication" /\ last.status = 200
    /\ apps # << >>

(* C14: whenever a file has not the form the server writes (it is absent,  *)
(* blank, not JSON, or JSON of another shape), the load of its collection  *)
(* gives the empty collection, and every response carries one of the       *)
(* statuses of the specified outcomes.                                     *)
SpecifiedStatuses == { 200, 201, 400, 401, 403, 404, 409 }

C14_LoadNeverFails ==
    /\ disk.accounts # "ok" => readDB = [ users |-> << >> ]
    /\ disk.universities # "ok" => readUniversities = << >>
    /\ disk.applications # "ok" => readApplications = << >>
    /\ last.op # "none" => last.status \in SpecifiedStatuses

(* C15: DELETE /api/universities/:id and DELETE /api/applications/:id are  *)
(* answered 404 and leave the file as it was when no record has the id;    *)
(* otherwise they are answered 200, no record with the id is left, and the *)
(* records with another id are all kept, unchanged and in the same order.  *)
(* A GET /api/universities/:id with the id is then answered 404 and the    *)
(* applications listing shows no record with the id.                       *)
Kept(before, id) == { i \in DOMAIN before : before[i].id # id }

DeletedFrom(before, after, idParam, response) ==
    LET id == Number(idParam)
    IN  IF id # NaN /\ HoldsId(before, id)
        THEN /\ response.status = 200 /\ response.body = Deleted
             /\ ~HoldsId(after, id)
             /\ Len(after) = Cardinality(Kept(before, id))
             /\ \A i \in Kept(before, id) :
                    after[Cardinality({ j \in Kept(before, id) : j <= i })] = before[i]
        ELSE /\ response.status = 404 /\ response.body = NotFound
             /\ after = before

ContainsIgnoringCase(name, q) ==
    \E k \in 0..(Len(name) - Len(q)) :
        \A j \in 1..Len(q) : LowerChar(name[k + j]) = LowerChar(q[j])

Satisfies(u, query) ==
    /\ query.q = << >> \/ ContainsIgnoringCase(u.name, query.q)
    /\ query.type = "" \/ u.type = query.type
    /\ query.college = "" \/ \E k \in DOMAIN u.colleges : u.colleges[k].name = query.college

Passing(data, query) == { i \in DOMAIN data : Satisfies(data[i], query) }

OnlyCollege(college) == [ q |-> << >>, type |-> "", college |-> college ]

C16_QueryIsConjunctive ==
    last.op = "queryUniversities" =>
        LET items == last.body.items
            passing == Passing(unis, last.req)
        IN  /\ last.status = 200
            /\ last.body.total = Len(items)
            /\ Len(items) = Cardinality(passing)
            /\ \A i \in passing :
                   items[Cardinality({ j \in passing : j <= i })] = unis[i]
            /\ ( Len(unis) = 1 /\ unis[1].colleges = << [ name |-> "Engineering" ] >> )
               => /\ last.req = OnlyCollege("Engineering") => items = unis
                  /\ last.req = OnlyCollege("Arts") => items = << >> /\ last.body.total = 0

\* of two stored universities the second alone passes a name filter written
\* in another case than the name
C16_Witness ==
    /\ last.op = "queryUniversities"
    /\ last.req.q = << "b", "e" >>
    /\ Len(unis) = 2
    /\ last.body.total = 1 /\ last.body.items[1] = unis[2]

(* C17: in every reachable state, under any order and overlap of signups,  *)
(* submits and deletes, every stored application has as userId the id of   *)
(* an account that is stored, and that account's email is exactly the      *)
(* application's applicantEmail.                                           *)
C17_ApplicationsHaveOwners ==
    \A i \in DOMAIN ListApplications :
        \E u \in DOMAIN ListAccounts.users :
            /\ ListAccounts.users[u].id = ListApplications[i].userId
            /\ ListAccounts.users[u].email = ListApplications[i].applicantEmail

(* C18: every step of a handler changes at most the file of its own        *)
(* collection: signup only accounts.json; submit and the delete of an      *)
(* application only applications.json; create, replace and delete of a     *)
(* university only universities.json; login, the two listings, the count,  *)
(* the query and the get by id none; and no file changes in a step that    *)
(* ends with the status of InvalidInput (400), Unauthorized (401),         *)
(* Forbidden (403), NotFound (404) or Conflict (409).                      *)
Accounts == << disk.accounts, users >>
Universities == << disk.universities, unis >>
Applications == << disk.applications, apps >>

FailureStatuses == { 400, 401, 403, 404, 409 }

\* the step has sent the response of the handler op to the request that
\* the response records
By(op) == last'.op = op

\* the step has suspended or resumed an async handler
Awaits == pending' # pending

C18_OwnCollectionOnly ==
    [][ /\ ( (By("signup") \/ Awaits) /\ SignupStep )
           => UNCHANGED << Universities, Applications >>
        /\ ( \/ By("apply") /\ Apply(last'.req)
             \/ By("deleteApplication") /\ DeleteApplication(last'.req) )
           => UNCHANGED << Accounts, Universities >>
        /\ ( \/ By("createUniversity") /\ CreateUniversity(last'.req)
             \/ By("replaceUniversity") /\ ReplaceUniversity(last'.req.id, last'.req.body)
             \/ By("deleteUniversity") /\ DeleteUniversity(last'.req) )
           => UNCHANGED << Accounts, Applications >>
        /\ ( \/ (By("login") \/ Awaits) /\ LoginStep
             \/ By("listAccounts") /\ GetAccounts
             \/ By("listApplications") /\ GetApplications
             \/ By("countApplications") /\ CountApplications(last'.req)
             \/ By("queryUniversities") /\ QueryUniversities(last'.req)
             \/ By("getUniversity") /\ GetUniversity(last'.req) )
           => UNCHANGED << Accounts, Universities, Applications >>
        /\ last'.status \in FailureStatuses
           => UNCHANGED << Accounts, Universities, Applications >>
      ]_vars

\* a university has been deleted while accounts and applications are stored
C18_Witness ==
    /\ last.op = "deleteUniversity" /\ last.status = 200
    /\ users # << >> /\ apps # << >>

=============================================================================
